---- MODULE Spec2Model ----
(***************************************************************************)
(* Job lifecycle of the bank-statement parser backend:                     *)
(*   upload_statement  -> StorageService.save_upload_file -> Job row       *)
(*   process_statement_background -> PipelineOrchestrator -> result rows   *)
(*   delete_statement                                                      *)
(* Handlers are coroutines on one event loop: a handler runs atomically    *)
(* from one await that touches shared state (database, blob store) to the  *)
(* next, and handlers interleave at those awaits.                          *)
(***************************************************************************)
EXTENDS Integers, Sequences, FiniteSets, TLC

\* ---------------------------------------------------------------- bounds
MaxUploads == 2      \* upload_statement requests in one behaviour
MaxDeletes == 1      \* delete_statement requests in one behaviour
MaxTxns == 1         \* transactions in an extraction tree
MaxRuns == 2         \* concurrent pipeline runs in one date shard
MaxPages == 3        \* pages of a PDF in those runs
MaxImages == 2       \* image paths in one extract_text_from_images call
MaxRetries == 2      \* largest max_retries a text completer is configured with
MaxChars == 1        \* characters of a JSON string in an LLM response
MaxDepth == 2        \* nesting depth of the JSON object in an LLM response
MaxProse == 1        \* characters of prose before and after the object
MaxDigits == 3       \* characters of an account number given to mask_account_number
MaxFields == 2       \* field objects in a tree given to normalize_extraction

Uploads == 1..MaxUploads
Deletes == 1..MaxDeletes
Ids == 1..MaxUploads

\* ------------------------------------------------------- values and inputs
Null == "NULL"

PENDING == "pending"
PROCESSING == "processing"
COMPLETED == "completed"
FAILED == "failed"
ProcessingStatus == {PENDING, PROCESSING, COMPLETED, FAILED}

\* settings.MAX_UPLOAD_SIZE = 50 * 1024 * 1024
MAX_UPLOAD_SIZE == 52428800

\* Uploaded bytes: not a PDF at all, a PDF without pages, a two-page PDF, each
\* of 1024 bytes.
Contents ==
    {[pdf |-> FALSE, pages |-> 0, size |-> 1024],
     [pdf |-> TRUE, pages |-> 0, size |-> 1024],
     [pdf |-> TRUE, pages |-> 2, size |-> 1024]}

\* Two-page PDFs of exactly the largest size and of one byte more.
LimitContents ==
    {[pdf |-> TRUE, pages |-> 2, size |-> n] : n \in {MAX_UPLOAD_SIZE, MAX_UPLOAD_SIZE + 1}}

FileNames == {"stmt.pdf", "stmt.txt"}

\* A file named .txt holding text, or a file named .pdf holding any content.
UploadFiles ==
    {[filename |-> "stmt.txt", content |-> [pdf |-> FALSE, pages |-> 0, size |-> 1024]]}
    \cup [filename : {"stmt.pdf"}, content : Contents \cup LimitContents]

\* The files submitted while several requests interleave: two distinct
\* contents, so that requests meet on the same hash.
LifecycleFiles ==
    {f \in UploadFiles :
        /\ f.content.pdf => f.content.pages > 0
        /\ f.content.size < MAX_UPLOAD_SIZE}

\* file.filename.lower().endswith('.pdf')
is_pdf_filename(filename) == filename = "stmt.pdf"

\* SHA-256 of the content: distinct contents have distinct digests.
calculate_file_hash(content) ==
    <<"sha256", content.pdf, content.pages, content.size>>

\* Date strings a model may return: ISO-8601, a format normalize_date can
\* convert (e.g. 05/01/2025), or text no parser accepts.
DateKinds == {"iso", "slash", "garbage"}

\* ------------------------------------------------- canonical extraction tree
\* The groups of an extraction tree that the background run reads.  period is
\* the kind of period.start_date.value; transactions holds, per transaction,
\* the kind of its date.value.
TxnLists == UNION {[1..n -> DateKinds] : n \in 0..MaxTxns}

\* account.account_number.value as returned by a model, character by
\* character: absent, a plain number, with separators, already masked, short.
AccountNumbers ==
    {<<>>,
     <<"1", "2", "3", "4", "5", "6", "7", "8", "9", "0", "1", "2">>,
     <<"1", "2", "3", "4", "-", "5", "6", "7", "8">>,
     <<"X", "X", "X", "X", "1", "2", "3", "4">>,
     <<"1", "2", "3">>}

PlainAccountNumber == <<"1", "2", "3", "4", "5", "6", "7", "8", "9", "0", "1", "2">>

EmptyTree ==
    [mapping |-> TRUE, account |-> FALSE, account_number |-> <<>>, bank |-> FALSE, period |-> "absent",
     balances |-> FALSE,
     has_transactions |-> FALSE, transactions |-> <<>>]

\* A normalized_data value that is a JSON array or string, not an object.
NotAMapping == [EmptyTree EXCEPT !.mapping = FALSE]

StatementTree(p, txns) ==
    [mapping |-> TRUE, account |-> TRUE, account_number |-> PlainAccountNumber, bank |-> TRUE, period |-> p,
     balances |-> TRUE,
     has_transactions |-> TRUE, transactions |-> txns]

\* Trees a model response may hold: nothing, a single group, or a full statement.
Trees ==
    {EmptyTree, [EmptyTree EXCEPT !.bank = TRUE]}
    \cup {[EmptyTree EXCEPT !.account = TRUE, !.account_number = n] : n \in AccountNumbers}
    \cup {StatementTree(p, t) : p \in {"iso", "slash"}, t \in TxnLists}

HasGroup(tree) ==
    tree.account \/ tree.bank \/ tree.period # "absent" \/ tree.balances
        \/ tree.has_transactions

\* validation_results of the normalize response: overall_confidence is absent,
\* a number (low, high) or a non-numeric value (text).
NoValidation ==
    [overall_confidence |-> "missing", issues |-> 0, balance_matches |-> TRUE]

Validations ==
    {NoValidation,
     [overall_confidence |-> "low", issues |-> 1, balance_matches |-> FALSE],
     [overall_confidence |-> "high", issues |-> 0, balance_matches |-> TRUE],
     [overall_confidence |-> "text", issues |-> 0, balance_matches |-> TRUE]}

\* validation_results.get('overall_confidence', 0), in percent
confidence_value(validation) ==
    CASE validation.overall_confidence = "low" -> 40
      [] validation.overall_confidence = "high" -> 95
      [] OTHER -> 0

\* ------------------------------------------------------------ LLM responses
\* GroqService.call_llm never raises: it returns success and content.  The
\* content is empty, prose, or holds a JSON object.
LLMFailure == [success |-> FALSE, empty |-> TRUE, json |-> FALSE, object |-> EmptyTree,
               has_normalized_data |-> FALSE, validation_results |-> NoValidation]

LLMEmpty == [LLMFailure EXCEPT !.success = TRUE]

LLMText == [LLMEmpty EXCEPT !.empty = FALSE]

LLMJson(tree) == [LLMText EXCEPT !.json = TRUE, !.object = tree]

CleanupResponses == {LLMFailure, LLMEmpty, LLMText}

\* Prose without a balanced object, or a JSON object.
ExtractResponses == {LLMFailure, LLMText} \cup {LLMJson(t) : t \in Trees}

\* What a model does to the dates of the tree it is asked to normalise.
llm_normalized(tree) ==
    [tree EXCEPT !.period = IF @ = "slash" THEN "iso" ELSE @]

NormalizeResponses(extracted, plain, validations) ==
    plain
    \cup {[LLMJson(EmptyTree) EXCEPT !.validation_results = v] : v \in validations}
    \cup {[LLMJson(t) EXCEPT !.has_normalized_data = TRUE, !.validation_results = v] :
            t \in {extracted, llm_normalized(extracted), NotAMapping}, v \in validations}

\* The responses tried while several requests interleave: a statement whose
\* rows can all be written, and one whose last transaction date is unusable.
GoodDates == [i \in 1..MaxTxns |-> "iso"]
BadLastDate == [i \in 1..MaxTxns |-> IF i = MaxTxns THEN "garbage" ELSE "iso"]

LifecycleExtracts ==
    {LLMJson(StatementTree("iso", GoodDates)), LLMJson(StatementTree("iso", BadLastDate))}

\* ExtractionAgent._parse_json_response / NormalizationAgent._parse_json_response:
\* the parsed object, or the empty mapping when no balanced object is found.
parse_json_response(response) ==
    IF response.json
    THEN [object |-> response.object,
          has_normalized_data |-> response.has_normalized_data,
          has_validation_results |-> TRUE,
          validation_results |-> response.validation_results]
    ELSE [object |-> EmptyTree, has_normalized_data |-> FALSE,
          has_validation_results |-> FALSE, validation_results |-> NoValidation]

\* NormalizationService.mask_account_number: separators are dropped; a
\* number of at most show_last characters keeps its last character only;
\* otherwise len - show_last mask characters are followed by
\* cleaned[-show_last:], which is all of cleaned when show_last is 0.
mask_account_number(account_number, show_last, mask_char) ==
    LET keep(c) == c \notin {" ", "-"}
        cleaned == SelectSeq(account_number, keep)
        n == Len(cleaned)
    IN  IF n <= show_last
        THEN [i \in 1..n |-> IF i < n THEN mask_char ELSE cleaned[i]]
        ELSE [i \in 1..(n - show_last) |-> mask_char]
                \o (IF show_last = 0 THEN cleaned
                    ELSE SubSeq(cleaned, n - show_last + 1, n))

\* NormalizationService.normalize_date: the ISO date, or None.
normalize_date(d) == IF d \in {"iso", "slash"} THEN "iso" ELSE "none"

\* NormalizationAgent._apply_normalization: transaction dates only.
apply_normalization(tree) ==
    [tree EXCEPT !.transactions =
        [i \in DOMAIN @ |-> IF normalize_date(@[i]) # "none"
                            THEN normalize_date(@[i]) ELSE @[i]]]

\* ------------------------------------------------------------------- agents
\* OCRCleanupAgent.process
cleanup_process(response) ==
    IF ~response.success
    THEN [success |-> FALSE, error |-> "llm error", cleaned_text_empty |-> TRUE]
    ELSE [success |-> TRUE, error |-> Null, cleaned_text_empty |-> response.empty]

\* ExtractionAgent.process
extraction_process(response) ==
    IF ~response.success
    THEN [success |-> FALSE, error |-> "llm error", extracted_data |-> EmptyTree]
    ELSE [success |-> TRUE, error |-> Null,
          extracted_data |-> parse_json_response(response).object]

\* NormalizationAgent.process
normalization_process(extracted_data, response) ==
    LET failed(msg) == [success |-> FALSE, error |-> msg, normalized_data |-> EmptyTree,
                        validation_results |-> NoValidation]
        parsed == parse_json_response(response)
        data == IF parsed.has_normalized_data THEN parsed.object ELSE extracted_data
        validation == IF parsed.has_validation_results
                      THEN parsed.validation_results ELSE NoValidation
    IN  IF ~response.success THEN failed("llm error")
        ELSE IF validation.overall_confidence = "text"
             THEN failed("format error")   \* f"{...:.2f}" raises inside the try
        ELSE [success |-> TRUE, error |-> Null,
              normalized_data |-> apply_normalization(data),
              validation_results |-> validation]

\* ------------------------------------------------------------- orchestrator
NoMetadata ==
    [filled |-> FALSE, pdf_pages |-> 0, transactions_found |-> 0,
     overall_confidence |-> 0, issues_count |-> 0]

EmptyResult ==
    [success |-> FALSE, errors |-> <<>>, stages |-> <<>>,
     extracted_data |-> EmptyTree, final_data |-> EmptyTree,
     validation_results |-> NoValidation, metadata |-> NoMetadata]

\* An orchestrator that goes on to extraction when cleanup has failed.
process_bank_statement_continue(readable, blob, ocr_texts, cleanup, extract, normalize) ==
    LET a2 == extraction_process(extract)
        a3 == normalization_process(a2.extracted_data, normalize)
        s4 == <<"pdf_conversion", "ocr_extraction", "ocr_cleanup", "data_extraction">>
    IN  IF ~readable \/ ~blob.pdf
        THEN [EmptyResult EXCEPT !.errors = <<"cannot open document">>]
        ELSE IF ~a2.success
        THEN [EmptyResult EXCEPT !.errors = <<"Agent 2 failed: " \o a2.error>>,
                                 !.stages = s4]
        ELSE IF ~a3.success
        THEN [EmptyResult EXCEPT !.errors = <<"Agent 3 failed: " \o a3.error>>,
                                 !.extracted_data = a2.extracted_data,
                                 !.stages = s4 \o <<"normalization">>]
        ELSE [success |-> TRUE, errors |-> <<>>,
              stages |-> s4 \o <<"normalization">>,
              extracted_data |-> a2.extracted_data,
              final_data |-> a3.normalized_data,
              validation_results |-> a3.validation_results,
              metadata |-> [NoMetadata EXCEPT !.filled = TRUE,
                                              !.pdf_pages = Len(ocr_texts)]]

\* PipelineOrchestrator.process_bank_statement.  blob is the content at
\* pdf_path (readable says whether the file is there); ocr_texts has one entry
\* per page (TRUE: text, FALSE: the empty string of a failed page).
process_bank_statement(readable, blob, ocr_texts, cleanup, extract, normalize) ==
    LET a1 == cleanup_process(cleanup)
        a2 == extraction_process(extract)
        a3 == normalization_process(a2.extracted_data, normalize)
        s2 == <<"pdf_conversion", "ocr_extraction">>
    IN  IF ~readable \/ ~blob.pdf
        THEN [EmptyResult EXCEPT !.errors = <<"cannot open document">>]
        ELSE IF ~a1.success
        THEN [EmptyResult EXCEPT !.errors = <<"Agent 1 failed: " \o a1.error>>,
                                 !.stages = s2 \o <<"ocr_cleanup">>]
        ELSE IF ~a2.success
        THEN [EmptyResult EXCEPT !.errors = <<"Agent 2 failed: " \o a2.error>>,
                                 !.stages = s2 \o <<"ocr_cleanup", "data_extraction">>]
        ELSE IF ~a3.success
        THEN [EmptyResult EXCEPT !.errors = <<"Agent 3 failed: " \o a3.error>>,
                                 !.extracted_data = a2.extracted_data,
                                 !.stages = s2 \o <<"ocr_cleanup", "data_extraction",
                                                    "normalization">>]
        ELSE IF ~a3.normalized_data.mapping
        THEN \* success is set before the metadata block, whose .get raises
             [success |-> TRUE, errors |-> <<"object has no attribute 'get'">>,
              stages |-> s2 \o <<"ocr_cleanup", "data_extraction", "normalization">>,
              extracted_data |-> a2.extracted_data,
              final_data |-> a3.normalized_data,
              validation_results |-> a3.validation_results,
              metadata |-> NoMetadata]
        ELSE [success |-> TRUE, errors |-> <<>>,
              stages |-> s2 \o <<"ocr_cleanup", "data_extraction", "normalization">>,
              extracted_data |-> a2.extracted_data,
              final_data |-> a3.normalized_data,
              validation_results |-> a3.validation_results,
              metadata |-> [filled |-> TRUE, pdf_pages |-> Len(ocr_texts),
                            transactions_found |-> Len(a3.normalized_data.transactions),
                            overall_confidence |-> confidence_value(a3.validation_results),
                            issues_count |-> a3.validation_results.issues]]

\* The answers of the calls the run made: a stage that was not reached made
\* no call.
calls_made(readable, blob, ocr_texts, cleanup, extract, normalize) ==
    LET opened == readable /\ blob.pdf
        a1 == opened /\ cleanup_process(cleanup).success
        a2 == a1 /\ extraction_process(extract).success
    IN  [ocr_texts |-> IF opened THEN ocr_texts ELSE <<>>,
         cleanup |-> IF opened THEN cleanup ELSE LLMFailure,
         extract |-> IF a1 THEN extract ELSE LLMFailure,
         normalize |-> IF a2 THEN normalize ELSE LLMFailure]

\* -------------------------------------------------------------------- state
VARIABLES
    files,              \* blob store: path -> content of the file at that path
    statements,         \* bank_statements table: id -> committed row
    customer_details,   \* customer_details table: rows [statement_id, account_number_masked]
    bank_details,       \* bank_details table: statement ids having a row
    transactions,       \* transactions table: rows [statement_id, n]
    uploads,            \* upload_statement requests: position and locals
    deletes,            \* delete_statement requests: position and locals
    tasks,              \* background tasks: statement id -> position and locals
    history,            \* per statement id, the status of every commit of its row
    next_id,            \* next unused statement id (uuid4 in the code)
    temp_images,        \* temp_images directory of a date shard: page number -> the
                        \* run whose PDF the file page_NNN was rendered from
    runs,               \* pipeline runs over PDFs of one date shard, page by page
    settings,           \* the settings the process was started with
    processing_logs,    \* table processing_logs
    call                \* a service call in progress: its arguments, what the
                        \* remote end answers, and what it has produced so far

request_vars == <<files, statements, customer_details, bank_details, transactions,
                  uploads, deletes, tasks, history, next_id>>

pipeline_vars == <<temp_images, runs, settings>>

service_vars == <<processing_logs, call>>

vars == <<files, statements, customer_details, bank_details, transactions,
          uploads, deletes, tasks, history, next_id, temp_images, runs, settings,
          processing_logs, call>>

Runs == 1..MaxRuns

\* ocr_inputs holds, per page read for OCR, the run the image was rendered
\* by; 0 stands for a file that is not there (open raises, the text is "").
IdleRun == [pc |-> "queued", pages |-> 0, ocr_inputs |-> <<>>]

NoFile == [filename |-> "stmt.txt",
           content |-> [pdf |-> FALSE, pages |-> 0, size |-> 1024]]
NoResponse == [code |-> 0, statement_id |-> 0, status |-> Null]
NoSave == [path |-> 0, hash |-> <<>>, duplicate |-> FALSE]

\* What the OCR service and the three LLM calls of a run answered.
NoCalls == [ocr_texts |-> <<>>, cleanup |-> LLMFailure, extract |-> LLMFailure,
            normalize |-> LLMFailure]

\* arrival_match and deleted_before record what was there when the request
\* arrived: a statement with the hash, and the statements already deleted.
IdleUpload == [pc |-> "idle", file |-> NoFile, save_result |-> NoSave,
               arrival_match |-> 0, deleted_before |-> {}, response |-> NoResponse]
IdleDelete == [pc |-> "idle", statement_id |-> 0, file_path |-> 0,
               file_hash |-> <<>>, code |-> 0]

Init ==
    /\ files = <<>>
    /\ statements = <<>>
    /\ customer_details = {}
    /\ bank_details = {}
    /\ transactions = {}
    /\ uploads = [u \in Uploads |-> IdleUpload]
    /\ deletes = [d \in Deletes |-> IdleDelete]
    /\ tasks = <<>>
    /\ history = <<>>
    /\ next_id = 1
    /\ temp_images = <<>>
    /\ runs = [r \in Runs |-> IdleRun]
    /\ settings = [CLEANUP_TEMP_FILES |-> TRUE]
    /\ processing_logs = {}
    /\ call = <<>>

\* ------------------------------------------------------------ StorageService
\* StorageService._find_file_by_hash: the stored paths whose content has the hash
find_file_by_hash(store, file_hash) ==
    {p \in DOMAIN store : calculate_file_hash(store[p]) = file_hash}

\* The filename-conflict loop of save_upload_file: path 0 is the original
\* name, path n the name with suffix _n.
free_path(store) ==
    IF 0 \notin DOMAIN store THEN 0
    ELSE CHOOSE n \in 1..(Cardinality(DOMAIN store) + 1) :
            /\ n \notin DOMAIN store
            /\ \A m \in 1..(n - 1) : m \in DOMAIN store

\* StorageService.save_upload_file(upload_file, check_duplicate=True)
save_upload_file(store, file) ==
    LET file_hash == calculate_file_hash(file.content)
        existing == find_file_by_hash(store, file_hash)
        path == free_path(store)
    IN  IF existing # {}
        THEN [files |-> store,
              result |-> [path |-> CHOOSE p \in existing : TRUE, hash |-> file_hash,
                          duplicate |-> TRUE]]
        ELSE [files |-> (path :> file.content) @@ store,
              result |-> [path |-> path, hash |-> file_hash, duplicate |-> FALSE]]

\* StorageService.delete_file
delete_file(store, path) == [p \in DOMAIN store \ {path} |-> store[p]]

\* ------------------------------------------------------------ upload_statement
\* select(BankStatement).where(file_hash == hash): ids of the matching rows
statements_with_hash(table, file_hash) ==
    {id \in DOMAIN table : table[id].file_hash = file_hash}

\* BankStatement(...) with the column defaults
new_statement(id, save_result) ==
    [id |-> id, file_path |-> save_result.path, file_hash |-> save_result.hash,
     status |-> PENDING, processing_started_at |-> Null,
     processing_completed_at |-> Null, processing_error |-> Null,
     page_count |-> 0, total_transactions |-> 0, overall_confidence |-> <<>>]

\* A duplicate branch that queues the existing statement again.
duplicate_return_requeue(existing) ==
    [response |-> [code |-> 200, statement_id |-> existing.id,
                   status |-> existing.status],
     add_task |-> TRUE]

\* The duplicate branch: the response, and whether a background task is added.
duplicate_return(existing) ==
    [response |-> [code |-> 200, statement_id |-> existing.id,
                   status |-> existing.status],
     add_task |-> FALSE]

\* Extension check and save_upload_file.  The request body is read before
\* anything shared is touched, and save_upload_file has no await after it.
UploadSave(u, file) ==
    /\ uploads[u].pc = "idle"
    /\ \A v \in 1..(u - 1) : uploads[v].pc # "idle"    \* requests are numbered as they arrive
    /\ IF ~is_pdf_filename(file.filename)
       THEN /\ uploads' = [uploads EXCEPT ![u] =
                    [@ EXCEPT !.pc = "done", !.file = file,
                              !.response = [NoResponse EXCEPT !.code = 400]]]
            /\ UNCHANGED files
       ELSE LET saved == save_upload_file(files, file)
                match == statements_with_hash(statements, saved.result.hash)
            IN  /\ files' = saved.files
                /\ uploads' = [uploads EXCEPT ![u] =
                        [@ EXCEPT !.pc = IF saved.result.duplicate THEN "lookup"
                                         ELSE "create",
                                  !.file = file,
                                  !.save_result = saved.result,
                                  !.arrival_match =
                                      IF match = {} THEN 0 ELSE CHOOSE id \in match : TRUE,
                                  !.deleted_before =
                                      {deletes[d].statement_id :
                                          d \in {e \in Deletes : deletes[e].code = 200}}]]
    /\ UNCHANGED pipeline_vars
    /\ UNCHANGED service_vars
    /\ UNCHANGED <<statements, customer_details, bank_details, transactions,
                   deletes, tasks, history, next_id>>

\* await db.execute(select ... file_hash == hash) of the duplicate branch
UploadLookup(u) ==
    /\ uploads[u].pc = "lookup"
    /\ LET found == statements_with_hash(statements, uploads[u].save_result.hash)
       IN  IF found # {}
           THEN LET ret == duplicate_return(statements[CHOOSE id \in found : TRUE])
                IN  /\ uploads' = [uploads EXCEPT ![u] =
                            [@ EXCEPT !.pc = "done", !.save_result = NoSave,
                                      !.response = ret.response]]
                    /\ tasks' = IF ret.add_task
                                THEN [tasks EXCEPT ![ret.response.statement_id] =
                                         [@ EXCEPT !.pc = "queued"]]
                                ELSE tasks
           ELSE /\ uploads' = [uploads EXCEPT ![u] = [@ EXCEPT !.pc = "create"]]
                /\ UNCHANGED tasks
    /\ UNCHANGED pipeline_vars
    /\ UNCHANGED service_vars
    /\ UNCHANGED <<files, statements, customer_details, bank_details, transactions,
                   deletes, history, next_id>>

\* db.add(statement); await db.commit(); background_tasks.add_task(...).
\* file_hash is unique: the INSERT of a second row with the hash raises, and the
\* handler answers 500.
UploadCommit(u) ==
    /\ uploads[u].pc = "create"
    /\ IF statements_with_hash(statements, uploads[u].save_result.hash) # {}
       THEN /\ uploads' = [uploads EXCEPT ![u] =
                    [@ EXCEPT !.pc = "done", !.save_result = NoSave,
                              !.response = [NoResponse EXCEPT !.code = 500]]]
            /\ UNCHANGED <<statements, tasks, history, next_id>>
       ELSE LET statement == new_statement(next_id, uploads[u].save_result)
            IN  /\ statements' = (next_id :> statement) @@ statements
                /\ history' = (next_id :> <<PENDING>>) @@ history
                /\ tasks' = (next_id :> [pc |-> "queued",
                                         file_path |-> statement.file_path,
                                         calls |-> NoCalls,
                                         result |-> EmptyResult]) @@ tasks
                /\ next_id' = next_id + 1
                /\ uploads' = [uploads EXCEPT ![u] =
                        [@ EXCEPT !.pc = "done", !.save_result = NoSave,
                                  !.response = [code |-> 200, statement_id |-> next_id,
                                                status |-> PENDING]]]
    /\ UNCHANGED pipeline_vars
    /\ UNCHANGED service_vars
    /\ UNCHANGED <<files, customer_details, bank_details, transactions, deletes>>

\* ------------------------------------------------ process_statement_background
\* A PROCESSING update that forgets the timestamp.
processing_fields_unstamped(statement) ==
    [statement EXCEPT !.status = PROCESSING]

\* statement.status = PROCESSING; statement.processing_started_at = utcnow()
processing_fields(statement) ==
    [statement EXCEPT !.status = PROCESSING, !.processing_started_at = "set"]

\* The "Update statement" block of the success branch;
\* overall_confidence is a nullable column, <<>> while it is NULL
completed_fields(statement, result) ==
    [statement EXCEPT !.status = COMPLETED,
                      !.processing_completed_at = "set",
                      !.page_count = result.metadata.pdf_pages,
                      !.total_transactions = result.metadata.transactions_found,
                      !.overall_confidence = <<result.metadata.overall_confidence>>]

\* status = FAILED, processing_completed_at, processing_error
failed_fields(statement, error) ==
    [statement EXCEPT !.status = FAILED,
                      !.processing_completed_at = "set",
                      !.processing_error = error]

\* '; '.join(result.get('errors', ['Unknown error']))
RECURSIVE join_errors(_)
join_errors(errors) ==
    IF errors = <<>> THEN ""
    ELSE IF Len(errors) = 1 THEN errors[1]
    ELSE errors[1] \o "; " \o join_errors(Tail(errors))

\* datetime.fromisoformat accepts ISO dates only
fromisoformat_raises(d) == d # "iso"

\* Index of the first transaction whose date makes fromisoformat raise, or 0
first_bad_date(txns) ==
    IF \E i \in DOMAIN txns : fromisoformat_raises(txns[i])
    THEN CHOOSE i \in DOMAIN txns :
            /\ fromisoformat_raises(txns[i])
            /\ \A k \in 1..(i - 1) : ~fromisoformat_raises(txns[k])
    ELSE 0

\* A row builder that skips a row it cannot build instead of raising.
build_rows_swallow(final_data) ==
    LET has_bank == final_data.bank /\ final_data.period # "absent"
                        /\ final_data.balances
        usable == {i \in DOMAIN final_data.transactions :
                        ~fromisoformat_raises(final_data.transactions[i])}
    IN  [customer |-> final_data.account,
              account_number_masked |-> final_data.account_number,
         bank |-> has_bank /\ ~fromisoformat_raises(final_data.period),
         transactions |-> IF final_data.has_transactions THEN Cardinality(usable) ELSE 0,
         raised |-> FALSE, error |-> Null]

\* The rows db.add()ed from final_data, in order Customer, Bank, Transaction*,
\* up to the first exception (raised): what the session holds when it is hit.
build_rows(final_data) ==
    LET has_bank == final_data.bank /\ final_data.period # "absent"
                        /\ final_data.balances
        bank_raises == has_bank /\ fromisoformat_raises(final_data.period)
        bad == IF final_data.has_transactions
               THEN first_bad_date(final_data.transactions) ELSE 0
        count == IF final_data.has_transactions THEN Len(final_data.transactions) ELSE 0
    IN  IF bank_raises
        THEN [customer |-> final_data.account,
              account_number_masked |-> final_data.account_number,
              bank |-> FALSE, transactions |-> 0,
              raised |-> TRUE, error |-> "Invalid isoformat string"]
        ELSE IF bad # 0
        THEN [customer |-> final_data.account,
              account_number_masked |-> final_data.account_number,
              bank |-> has_bank,
              transactions |-> bad - 1,
              raised |-> TRUE, error |-> "Invalid isoformat string"]
        ELSE [customer |-> final_data.account,
              account_number_masked |-> final_data.account_number,
              bank |-> has_bank,
              transactions |-> count, raised |-> FALSE, error |-> Null]

NoRows == [customer |-> FALSE, account_number_masked |-> <<>>, bank |-> FALSE,
           transactions |-> 0]

\* A run that treats reported validation issues as a failure.
session_commits_blocking(statement, result) ==
    LET rows == build_rows(result.final_data)
        done == completed_fields(statement, result)
    IN  IF result.success /\ result.validation_results.issues = 0
        THEN IF ~result.metadata.filled
             THEN <<[statement |-> failed_fields(statement, "'pdf_pages'"),
                     rows |-> NoRows, by_handler |-> TRUE]>>
             ELSE IF ~rows.raised
             THEN <<[statement |-> done,
                     rows |-> [customer |-> rows.customer,
                               account_number_masked |-> rows.account_number_masked,
                               bank |-> rows.bank,
                               transactions |-> rows.transactions],
                     by_handler |-> FALSE]>>
             ELSE <<[statement |-> failed_fields(done, rows.error),
                     rows |-> [customer |-> rows.customer,
                               account_number_masked |-> rows.account_number_masked,
                               bank |-> rows.bank,
                               transactions |-> rows.transactions],
                     by_handler |-> TRUE]>>
        ELSE <<[statement |-> failed_fields(statement,
                    IF result.success THEN "validation failed"
                    ELSE join_errors(result.errors)),
                rows |-> NoRows, by_handler |-> FALSE]>>

\* What the run commits once the pipeline has returned, as a sequence of
\* commits [statement, rows].  The success branch commits the statement and
\* its rows together; a result without its metadata raises KeyError before
\* any row is added.  When building the rows raises, the except handler
\* re-selects the statement through the same session, which still holds the
\* changed statement and the rows added so far, and its commit writes them
\* with the status set to FAILED (by_handler).
session_commits(statement, result) ==
    LET rows == build_rows(result.final_data)
        done == completed_fields(statement, result)
    IN  IF result.success
        THEN IF ~result.metadata.filled
             THEN <<[statement |-> failed_fields(statement, "'pdf_pages'"),
                     rows |-> NoRows, by_handler |-> TRUE]>>
             ELSE IF ~rows.raised
             THEN <<[statement |-> done,
                     rows |-> [customer |-> rows.customer,
                               account_number_masked |-> rows.account_number_masked,
                               bank |-> rows.bank,
                               transactions |-> rows.transactions],
                     by_handler |-> FALSE]>>
             ELSE <<[statement |-> failed_fields(done, rows.error),
                     rows |-> [customer |-> rows.customer,
                               account_number_masked |-> rows.account_number_masked,
                               bank |-> rows.bank,
                               transactions |-> rows.transactions],
                     by_handler |-> TRUE]>>
        ELSE <<[statement |-> failed_fields(statement, join_errors(result.errors)),
                rows |-> NoRows, by_handler |-> FALSE]>>

\* select(CustomerDetails).where(statement_id == id)
customer_of(table, id) == {c \in table : c.statement_id = id}

transaction_rows(id, n) == {[statement_id |-> id, n |-> k] : k \in 1..n}

\* The commits of a run that reach the database.  ok says whether the commit
\* of the branch succeeds, handler_ok whether the commit of the except handler
\* does.  A commit that raises rolls the session back; when it was the
\* branch's, the handler selects the statement again, sets FAILED and commits;
\* when the handler's commit raises, the exception is dropped.
committed(statement, attempts, ok, handler_ok) ==
    IF ok THEN attempts
    ELSE IF ~attempts[1].by_handler /\ handler_ok
    THEN <<[statement |-> failed_fields(statement, "commit failed"),
            rows |-> NoRows, by_handler |-> TRUE]>>
    ELSE <<>>

\* select the statement, set PROCESSING and commit; commits holds the
\* outcomes a commit may have.  A statement that is gone ends the task, and
\* so does a commit that raises, through the except handler.
BgStart(id, commits) ==
    /\ id \in DOMAIN tasks
    /\ tasks[id].pc = "queued"
    /\ IF id \in DOMAIN statements
       THEN \E ok \in commits, handler_ok \in commits :
            LET written == committed(statements[id],
                               <<[statement |-> processing_fields(statements[id]),
                                  rows |-> NoRows, by_handler |-> FALSE]>>,
                               ok, handler_ok)
            IN  /\ statements' = IF written = <<>> THEN statements
                                 ELSE [statements EXCEPT ![id] = written[1].statement]
                /\ history' = [history EXCEPT ![id] =
                        @ \o [i \in 1..Len(written) |-> written[i].statement.status]]
                /\ tasks' = [tasks EXCEPT ![id] =
                        [@ EXCEPT !.pc = IF ok THEN "pipeline" ELSE "done"]]
       ELSE /\ tasks' = [tasks EXCEPT ![id] = [@ EXCEPT !.pc = "done"]]
            /\ UNCHANGED <<statements, history>>
    /\ UNCHANGED pipeline_vars
    /\ UNCHANGED service_vars
    /\ UNCHANGED <<files, customer_details, bank_details, transactions, uploads,
                   deletes, next_id>>

\* orchestrator.process_bank_statement(file_path): the OCR and LLM services
\* answer as they will, within the given sets of responses.
BgPipeline(id, ocrs, cleanups, extracts, plain, validations) ==
    /\ id \in DOMAIN tasks
    /\ tasks[id].pc = "pipeline"
    /\ LET path == tasks[id].file_path
           readable == path \in DOMAIN files
           blob == IF readable THEN files[path] ELSE NoFile.content
       IN  \E ocr_texts \in [1..blob.pages -> ocrs],
              cleanup \in cleanups,
              extract \in extracts :
             \E normalize \in NormalizeResponses(
                    extraction_process(extract).extracted_data, plain, validations) :
               tasks' = [tasks EXCEPT ![id] =
                   [@ EXCEPT !.pc = "finish",
                             !.calls = calls_made(
                                 readable, blob, ocr_texts, cleanup, extract, normalize),
                             !.result = process_bank_statement(
                                 readable, blob, ocr_texts, cleanup, extract, normalize)]]
    /\ UNCHANGED pipeline_vars
    /\ UNCHANGED service_vars
    /\ UNCHANGED <<files, statements, customer_details, bank_details, transactions,
                   uploads, deletes, history, next_id>>

\* BgFinish whose flush inserts the child rows although the UPDATE of the
\* statement matched no row.
BgFinish_orphans(id, commits) ==
    /\ id \in DOMAIN tasks
    /\ tasks[id].pc = "finish"
    /\ tasks' = [tasks EXCEPT ![id] = [@ EXCEPT !.pc = "done"]]
    /\ IF id \in DOMAIN statements
       THEN \E ok \in commits, handler_ok \in commits :
            LET written == committed(statements[id],
                               session_commits(statements[id], tasks[id].result),
                               ok, handler_ok)
                last == written[Len(written)]
            IN  /\ history' = [history EXCEPT ![id] =
                        @ \o [i \in 1..Len(written) |-> written[i].statement.status]]
                /\ IF written = <<>>
                   THEN UNCHANGED <<statements, customer_details, bank_details,
                                    transactions>>
                   ELSE /\ statements' = [statements EXCEPT ![id] = last.statement]
                        /\ customer_details' =
                                IF last.rows.customer
                                THEN customer_details \cup
                                        {[statement_id |-> id,
                                          account_number_masked |->
                                              last.rows.account_number_masked]}
                                ELSE customer_details
                        /\ bank_details' =
                                IF last.rows.bank THEN bank_details \cup {id}
                                ELSE bank_details
                        /\ transactions' =
                                transactions \cup
                                    transaction_rows(id, last.rows.transactions)
       ELSE LET result == tasks[id].result
                rows == IF result.success /\ result.metadata.filled
                        THEN build_rows(result.final_data) ELSE NoRows
            IN  /\ customer_details' =
                        IF rows.customer
                        THEN customer_details \cup
                                {[statement_id |-> id,
                                  account_number_masked |-> rows.account_number_masked]}
                        ELSE customer_details
                /\ bank_details' = IF rows.bank THEN bank_details \cup {id}
                                   ELSE bank_details
                /\ transactions' = transactions \cup
                                        transaction_rows(id, rows.transactions)
                /\ UNCHANGED <<statements, history>>
    /\ UNCHANGED pipeline_vars
    /\ UNCHANGED service_vars
    /\ UNCHANGED <<files, uploads, deletes, next_id>>

\* The commits after the pipeline; commits holds the outcomes a commit may
\* have.  The UPDATE of a statement that has been deleted meanwhile matches no
\* row: the flush raises and nothing is written.
BgFinish(id, commits) ==
    /\ id \in DOMAIN tasks
    /\ tasks[id].pc = "finish"
    /\ tasks' = [tasks EXCEPT ![id] = [@ EXCEPT !.pc = "done"]]
    /\ IF id \in DOMAIN statements
       THEN \E ok \in commits, handler_ok \in commits :
            LET written == committed(statements[id],
                               session_commits(statements[id], tasks[id].result),
                               ok, handler_ok)
                last == written[Len(written)]
            IN  /\ history' = [history EXCEPT ![id] =
                        @ \o [i \in 1..Len(written) |-> written[i].statement.status]]
                /\ IF written = <<>>
                   THEN UNCHANGED <<statements, customer_details, bank_details,
                                    transactions>>
                   ELSE /\ statements' = [statements EXCEPT ![id] = last.statement]
                        /\ customer_details' =
                                IF last.rows.customer
                                THEN customer_details \cup
                                        {[statement_id |-> id,
                                          account_number_masked |->
                                              last.rows.account_number_masked]}
                                ELSE customer_details
                        /\ bank_details' =
                                IF last.rows.bank THEN bank_details \cup {id}
                                ELSE bank_details
                        /\ transactions' =
                                transactions \cup
                                    transaction_rows(id, last.rows.transactions)
       ELSE UNCHANGED <<statements, history, customer_details, bank_details,
                        transactions>>
    /\ UNCHANGED pipeline_vars
    /\ UNCHANGED service_vars
    /\ UNCHANGED <<files, uploads, deletes, next_id>>

\* ------------------------------------------------------------ delete_statement
\* select the statement (404 when absent), then storage.delete_file
DeleteSelect(d, id) ==
    /\ deletes[d].pc = "idle"
    /\ \A e \in 1..(d - 1) : deletes[e].pc # "idle"    \* requests are numbered as they arrive
    /\ IF id \in DOMAIN statements
       THEN /\ files' = delete_file(files, statements[id].file_path)
            /\ deletes' = [deletes EXCEPT ![d] =
                    [pc |-> "commit", statement_id |-> id,
                     file_path |-> statements[id].file_path,
                     file_hash |-> statements[id].file_hash, code |-> 0]]
       ELSE /\ deletes' = [deletes EXCEPT ![d] =
                    [IdleDelete EXCEPT !.pc = "done", !.code = 404]]
            /\ UNCHANGED files
    /\ UNCHANGED pipeline_vars
    /\ UNCHANGED service_vars
    /\ UNCHANGED <<statements, customer_details, bank_details, transactions,
                   uploads, tasks, history, next_id>>

\* The statement_id foreign keys are declared ON DELETE CASCADE: the rows
\* that reference a deleted statement go with it.
on_delete_cascade(rows, id) == {r \in rows : r.statement_id # id}

\* await db.delete(statement); await db.commit(): the row and, by cascade,
\* the rows it owns
DeleteCommit(d) ==
    /\ deletes[d].pc = "commit"
    /\ LET id == deletes[d].statement_id
       IN  /\ statements' = [i \in DOMAIN statements \ {id} |-> statements[i]]
           /\ customer_details' = on_delete_cascade(customer_details, id)
           /\ bank_details' = bank_details \ {id}
           /\ transactions' = on_delete_cascade(transactions, id)
           /\ processing_logs' = on_delete_cascade(processing_logs, id)
    /\ deletes' = [deletes EXCEPT ![d] = [@ EXCEPT !.pc = "done", !.code = 200]]
    /\ UNCHANGED pipeline_vars
    /\ UNCHANGED call
    /\ UNCHANGED <<files, uploads, tasks, history, next_id>>

\* ------------------------------------------- one pipeline run, page by page
\* PDFProcessingService.pdf_to_images: every page is rendered as page_NNN in
\* the temp_images directory next to the PDF, replacing a file of that name.
pdf_to_images(directory, r, pages) ==
    [k \in DOMAIN directory \cup (1..pages) |->
        IF k \in 1..pages THEN r ELSE directory[k]]

\* PDFProcessingService.cleanup_temp_images(image_paths): unlink each path
cleanup_temp_images(directory, pages, enabled) ==
    IF enabled
    THEN [k \in DOMAIN directory \ (1..pages) |-> directory[k]]
    ELSE directory

\* OlmOCRService.extract_text_from_image up to its await: the file at the
\* path of page k is read and posted.
read_image(directory, k) == IF k \in DOMAIN directory THEN directory[k] ELSE 0

\* Stage 1 of a run and stage 2 up to its first await: the pages are
\* rendered, the first image is read and its OCR request is sent.
RunRasterize(r, pages) ==
    /\ runs[r].pc = "queued"
    /\ \A q \in 1..(r - 1) : runs[q].pc # "queued"    \* runs are numbered as they start
    /\ temp_images' = pdf_to_images(temp_images, r, pages)
    /\ runs' = [runs EXCEPT ![r] =
            [pc |-> IF pages = 1 THEN "agents" ELSE "ocr", pages |-> pages,
             ocr_inputs |-> <<read_image(temp_images', 1)>>]]
    /\ UNCHANGED <<settings, request_vars, service_vars>>

\* The OCR request of a page has returned: the image of the next page is
\* read and posted, and that request is awaited.
RunOcrPage(r) ==
    /\ runs[r].pc = "ocr"
    /\ LET k == Len(runs[r].ocr_inputs) + 1
       IN  runs' = [runs EXCEPT ![r] =
                [@ EXCEPT !.ocr_inputs = Append(@, read_image(temp_images, k)),
                          !.pc = IF k = runs[r].pages THEN "agents" ELSE "ocr"]]
    /\ UNCHANGED <<temp_images, settings, request_vars, service_vars>>

\* The last OCR request has returned.  The rest of process_bank_statement has
\* no await that yields (call_llm uses the blocking client): the three agents
\* and, when all succeed, cleanup_temp_images(image_paths).
RunAgents(r, success) ==
    /\ runs[r].pc = "agents"
    /\ temp_images' = IF success
                      THEN cleanup_temp_images(temp_images, runs[r].pages,
                                               settings.CLEANUP_TEMP_FILES)
                      ELSE temp_images
    /\ runs' = [runs EXCEPT ![r] = [@ EXCEPT !.pc = "done"]]
    /\ UNCHANGED <<settings, request_vars, service_vars>>

\* ------------------------------------------------------------- OlmOCRService
OLMOCR_MAX_RETRIES == 3

\* What the OCR endpoint does with one POST: a 200 with the text, another
\* status (raise_for_status raises), or no response (httpx raises).
OcrAnswers == {"ok", "http_error", "transport_error"}

\* The text of page k, and the empty string
page_text(k) == <<"text of page", k>>
empty_text == <<>>

\* OlmOCRService.extract_text_from_image: one POST; answers holds what the
\* endpoint answers to the first, second, ... POST for this image.
extract_text_from_image(answers, k) ==
    IF answers[1] = "ok"
    THEN [raised |-> FALSE, text |-> page_text(k), posts |-> 1]
    ELSE [raised |-> TRUE, text |-> empty_text, posts |-> 1]

\* The loop body of extract_text_from_images that drops a failed page instead of
\* appending "".
extract_text_from_images_skip(results, extraction) ==
    IF extraction.raised THEN results ELSE Append(results, extraction.text)

\* The loop body of extract_text_from_images: the text, or "" when the
\* extraction raised, is appended to results.
extract_text_from_images(results, extraction) ==
    IF extraction.raised THEN Append(results, empty_text)
    ELSE Append(results, extraction.text)

\* An extract_text_from_images call over image_paths images whose endpoint
\* answers as in answers; page counts the images handled so far.
OcrCalls ==
    {[image_paths |-> n, answers |-> a, page |-> 0, results |-> <<>>, posts |-> <<>>] :
        n \in 1..MaxImages,
        a \in UNION {[1..m -> [1..OLMOCR_MAX_RETRIES -> OcrAnswers]] : m \in 1..MaxImages}}

\* One iteration of the loop of extract_text_from_images
OcrExtractPage ==
    /\ call.page < call.image_paths
    /\ LET k == call.page + 1
           extraction == extract_text_from_image(call.answers[k], k)
       IN  call' = [call EXCEPT !.page = k,
                               !.results = extract_text_from_images(@, extraction),
                               !.posts = Append(@, extraction.posts)]
    /\ UNCHANGED <<request_vars, pipeline_vars, processing_logs>>

\* ------------------------------------------------------------ text completers
\* What one request to the model ends with: the content, an exception of the
\* transport (no connection, timeout), or an exception about the response
\* (an error status for an invalid completion, a response without choices).
LlmAnswers == {"ok", "transport_error", "shape_error"}

\* 2 ** attempt
RECURSIVE pow2(_)
pow2(n) == IF n = 0 THEN 1 ELSE 2 * pow2(n - 1)

\* One pass of the loop of GroqService.call_llm_api_with_retry (server):
\* every exception is caught and, below max_retries, slept on and retried;
\* "" is returned when the attempts are used up.  delay is in units of
\* retry_delay.
GroqService_call_llm_api_with_retry(max_retries, attempt, answer) ==
    IF answer = "ok" THEN [outcome |-> "content", delay |-> 0]
    ELSE IF attempt < max_retries THEN [outcome |-> "retry", delay |-> pow2(attempt)]
    ELSE [outcome |-> "empty", delay |-> 0]

\* One pass of the loop of OllamaService.call_llm_api_with_retry (backend):
\* only httpx.RequestError is caught; any other exception leaves the call.
OllamaService_call_llm_api_with_retry(max_retries, attempt, answer) ==
    IF answer = "ok" THEN [outcome |-> "content", delay |-> 0]
    ELSE IF answer = "shape_error" THEN [outcome |-> "raised", delay |-> 0]
    ELSE IF attempt < max_retries THEN [outcome |-> "retry", delay |-> pow2(attempt)]
    ELSE [outcome |-> "empty", delay |-> 0]

\* GroqService.call_llm (backend): one request; every exception becomes a
\* result with success False.
GroqService_call_llm(max_retries, attempt, answer) ==
    IF answer = "ok" THEN [outcome |-> "content", delay |-> 0]
    ELSE [outcome |-> "failure", delay |-> 0]

Completers == {"server GroqService", "backend OllamaService", "backend GroqService"}

\* A call of a completer configured with max_retries, whose model answers the
\* successive requests as in answers.  after holds the answers a further
\* request was made after, delays the sleeps between the requests.
CompleterCalls ==
    {[service |-> sv, max_retries |-> m, answers |-> a, attempt |-> 0,
      after |-> <<>>, delays |-> <<>>, outcome |-> "retry"] :
        sv \in Completers, m \in 0..MaxRetries,
        a \in [1..(MaxRetries + 1) -> LlmAnswers]}

\* One request of the call in progress and what the completer does with its end
CompleterAttempt ==
    /\ call.outcome = "retry"
    /\ LET answer == call.answers[call.attempt + 1]
           pass == CASE call.service = "server GroqService" ->
                            GroqService_call_llm_api_with_retry(
                                call.max_retries, call.attempt, answer)
                     [] call.service = "backend OllamaService" ->
                            OllamaService_call_llm_api_with_retry(
                                call.max_retries, call.attempt, answer)
                     [] call.service = "backend GroqService" ->
                            GroqService_call_llm(call.max_retries, call.attempt, answer)
       IN  call' = [call EXCEPT
                !.attempt = @ + 1,
                !.outcome = pass.outcome,
                !.after = IF pass.outcome = "retry" THEN Append(@, answer) ELSE @,
                !.delays = IF pass.outcome = "retry" THEN Append(@, pass.delay) ELSE @]
    /\ UNCHANGED <<request_vars, pipeline_vars, processing_logs>>

\* -------------------------------------------------- _parse_json_response, text
\* Response texts are sequences of characters.  A JSON value is
\* <<"string", characters>>, <<"object">> for {} or <<"object", key, value>>.
Quote == "\""
Backslash == "\\"
Chars == {"a", "{", "}", Quote, Backslash}

RECURSIVE SeqsUpTo(_, _)
SeqsUpTo(S, n) ==
    IF n = 0 THEN {<<>>}
    ELSE SeqsUpTo(S, n - 1) \cup
            {Append(q, c) : q \in {x \in SeqsUpTo(S, n - 1) : Len(x) = n - 1}, c \in S}

EmptyMapping == <<"object">>

RECURSIVE ObjectValues(_)
ObjectValues(depth) ==
    {EmptyMapping}
    \cup {<<"object", <<"a">>, <<"string", str>>>> : str \in SeqsUpTo(Chars, MaxChars)}
    \cup (IF depth <= 1 THEN {}
          ELSE {<<"object", <<"a">>, o>> : o \in ObjectValues(depth - 1)})

\* json.dumps without whitespace
RECURSIVE dump_string(_)
dump_string(chars) ==
    IF chars = <<>> THEN <<>>
    ELSE (IF Head(chars) \in {Quote, Backslash} THEN <<Backslash, Head(chars)>>
          ELSE <<Head(chars)>>) \o dump_string(Tail(chars))

RECURSIVE dumps(_)
dumps(value) ==
    IF value[1] = "string" THEN <<Quote>> \o dump_string(value[2]) \o <<Quote>>
    ELSE IF Len(value) = 1 THEN <<"{", "}">>
    ELSE <<"{", Quote>> \o dump_string(value[2]) \o <<Quote, ":">>
            \o dumps(value[3]) \o <<"}">>

\* json.loads: the characters of a string literal from position j on, up to
\* its closing quote
JsonError == [ok |-> FALSE, value |-> <<>>, next |-> 0]

RECURSIVE loads_string(_, _, _)
loads_string(text, j, acc) ==
    IF j > Len(text) THEN JsonError
    ELSE IF text[j] = Quote THEN [ok |-> TRUE, value |-> acc, next |-> j + 1]
    ELSE IF text[j] = Backslash
    THEN IF j + 1 <= Len(text) /\ text[j + 1] \in {Quote, Backslash}
         THEN loads_string(text, j + 2, Append(acc, text[j + 1]))
         ELSE JsonError
    ELSE loads_string(text, j + 1, Append(acc, text[j]))

\* json.loads: the value that starts at position i
RECURSIVE loads_value(_, _)
loads_value(text, i) ==
    IF i > Len(text) THEN JsonError
    ELSE IF text[i] = Quote
    THEN LET str == loads_string(text, i + 1, <<>>)
         IN  IF str.ok THEN [str EXCEPT !.value = <<"string", @>>] ELSE JsonError
    ELSE IF text[i] # "{" THEN JsonError
    ELSE IF i + 1 <= Len(text) /\ text[i + 1] = "}"
    THEN [ok |-> TRUE, value |-> EmptyMapping, next |-> i + 2]
    ELSE IF ~(i + 1 <= Len(text) /\ text[i + 1] = Quote) THEN JsonError
    ELSE LET key == loads_string(text, i + 2, <<>>)
         IN  IF ~key.ok \/ key.next > Len(text) THEN JsonError
             ELSE IF text[key.next] # ":" THEN JsonError
             ELSE LET member == loads_value(text, key.next + 1)
                  IN  IF ~member.ok \/ member.next > Len(text) THEN JsonError
                      ELSE IF text[member.next] # "}" THEN JsonError
                      ELSE [ok |-> TRUE,
                            value |-> <<"object", key.value, member.value>>,
                            next |-> member.next + 1]

\* json.loads(json_str): JSONDecodeError unless the whole text is one value
json_loads(json_str) ==
    LET parsed == loads_value(json_str, 1)
    IN  IF parsed.ok /\ parsed.next = Len(json_str) + 1 THEN parsed ELSE JsonError

\* response_text.find('{'), 0 for not found
RECURSIVE find_brace(_, _)
find_brace(text, i) ==
    IF i > Len(text) THEN 0
    ELSE IF text[i] = "{" THEN i
    ELSE find_brace(text, i + 1)

\* The brace-counting loop: the position of the brace that brings the count
\* back to 0, or 0 when there is none.
RECURSIVE matching_brace(_, _, _)
matching_brace(text, i, brace_count) ==
    IF i > Len(text) THEN 0
    ELSE IF text[i] = "{" THEN matching_brace(text, i + 1, brace_count + 1)
    ELSE IF text[i] = "}"
    THEN IF brace_count - 1 = 0 THEN i
         ELSE matching_brace(text, i + 1, brace_count - 1)
    ELSE matching_brace(text, i + 1, brace_count)

\* _parse_json_response(response_text) of the extraction and the
\* normalization agent
parse_json_response_text(response_text) ==
    LET json_start == find_brace(response_text, 1)
        json_end == IF json_start = 0 THEN 0
                    ELSE matching_brace(response_text, json_start, 0)
    IN  IF json_start = 0 \/ json_end = 0 THEN EmptyMapping
        ELSE LET data == json_loads(SubSeq(response_text, json_start, json_end))
             IN  IF data.ok THEN data.value ELSE EmptyMapping

\* Responses that hold one object, with prose around it, and responses that
\* hold no balanced object.  object is the object the response holds.
Prose == SeqsUpTo({"a"}, MaxProse)

JsonResponses ==
    {[response_text |-> before \o dumps(o) \o after, object |-> o, has_object |-> TRUE,
      returned |-> <<>>] :
        before \in Prose, after \in Prose, o \in ObjectValues(MaxDepth)}
    \cup {[response_text |-> text, object |-> EmptyMapping, has_object |-> FALSE,
           returned |-> <<>>] :
            text \in {t \in SeqsUpTo({"a", "{", "}"}, MaxProse + 1) :
                            \A i \in 1..(Len(t) - 1) : ~(t[i] = "{" /\ t[i + 1] = "}")}}

ParseJsonResponse ==
    /\ call.returned = <<>>
    /\ call' = [call EXCEPT !.returned = parse_json_response_text(call.response_text)]
    /\ UNCHANGED <<request_vars, pipeline_vars, processing_logs>>

\* ------------------------------------------------------- mask_account_number
\* mask_account_number(account_number, show_last) with the configured mask
\* character, for numbers of digits and separators.
MaskCalls ==
    {[account_number |-> a, show_last |-> n, done |-> FALSE, masked |-> <<>>] :
        a \in SeqsUpTo({"1", "2", "-"}, MaxDigits), n \in 0..(MaxDigits + 1)}

MaskAccountNumber ==
    /\ ~call.done
    /\ call' = [call EXCEPT !.done = TRUE,
                            !.masked = mask_account_number(call.account_number,
                                                           call.show_last, "X")]
    /\ UNCHANGED <<request_vars, pipeline_vars, processing_logs>>

\* ------------------------------------------------------ normalize_extraction
\* A tree maps keys to field objects {'value': ..., 'currency': ...}.  A value
\* is a number, held as the digits before its ".0", or a string, held as its
\* characters; a date string is held as the kind of its format.  currency is
\* "" while the field object has no such key.
Number(digits) == [numeric |-> TRUE, text |-> digits]
String(chars) == [numeric |-> FALSE, text |-> chars]

DigitChars == {"0", "1", "2"}

\* The character U+20AC of CURRENCY_SYMBOLS
EuroSign == "EUR_SIGN"

\* Keys of field objects, and the tests the passes make on them
FieldKeys == {"date", "amount", "credit", "account_number", "name"}
is_date_key(key) == key = "date"                           \* 'date' in key.lower()
is_amount_key(key) == key \in {"amount", "credit"}         \* 'amount' ... 'credit' in key.lower()
is_pii_key(key) == key \in {"credit", "account_number"}    \* any(indicator in field_name_lower)

FieldValues(key) ==
    IF is_date_key(key) THEN {String(<<k>>) : k \in DateKinds}
    ELSE IF is_amount_key(key)
    THEN {String(<<"1">>), String(<<"1", "2", "1">>), String(<<"1", ",", "2", "1", "2">>),
          String(<<"$", "1", "2">>), String(<<EuroSign, "1">>), String(<<>>),
          Number(<<"1", "2">>), Number(<<"1", "2", "1", "2">>)}
    ELSE IF key = "account_number" THEN {String(a) : a \in AccountNumbers}
    ELSE {String(<<"a">>)}

\* str(value)
str(value) == IF value.numeric THEN value.text \o <<".", "0">> ELSE value.text

\* bool(value)
truthy(value) == IF value.numeric THEN value.text # <<"0">> ELSE value.text # <<>>

\* sub in text
contains(text, sub) ==
    \E i \in 1..(Len(text) - Len(sub) + 1) : SubSeq(text, i, i + Len(sub) - 1) = sub

\* text.replace(c, '') and re.sub(r'[,\s]', '', text)
without(text, c) == LET keep(x) == x # c IN SelectSeq(text, keep)

\* The number float(cleaned) gives or, when that raises, the first match of
\* -?\d+\.?\d*: the first run of digits; 0.0 when there is none.
RECURSIVE digit_run(_, _)
digit_run(text, i) ==
    IF i > Len(text) \/ text[i] \notin DigitChars THEN <<>>
    ELSE <<text[i]>> \o digit_run(text, i + 1)

RECURSIVE first_digit(_, _)
first_digit(text, i) ==
    IF i > Len(text) THEN 0
    ELSE IF text[i] \in DigitChars THEN i
    ELSE first_digit(text, i + 1)

parse_float(cleaned) ==
    IF first_digit(cleaned, 1) = 0 THEN <<"0">>
    ELSE digit_run(cleaned, first_digit(cleaned, 1))

\* NormalizationService.normalize_amount(amount_value, currency)
normalize_amount(amount_value, currency) ==
    LET default == IF currency = "" THEN "USD" ELSE currency
    IN  IF amount_value.numeric THEN [value |-> amount_value, currency |-> default]
        ELSE IF amount_value.text = <<>>
        THEN [value |-> Number(<<"0">>), currency |-> default]
        ELSE LET detected == IF contains(amount_value.text, <<"$">>) THEN "USD"
                             ELSE IF contains(amount_value.text, <<EuroSign>>) THEN "EUR"
                             ELSE ""
                 amount_str == IF detected = "USD" THEN without(amount_value.text, "$")
                               ELSE IF detected = "EUR"
                               THEN without(amount_value.text, EuroSign)
                               ELSE amount_value.text
             IN  [value |-> Number(parse_float(without(amount_str, ","))),
                  currency |-> IF detected = "" THEN default ELSE detected]

\* NormalizationService.mask_pii_field(field_name, field_value), mask_pii on
mask_pii_field(field_name, field_value) ==
    IF is_pii_key(field_name) /\ truthy(field_value)
    THEN IF field_name = "account_number"
         THEN String(mask_account_number(str(field_value), 4, "X"))
         ELSE LET value_str == str(field_value)
                  n == Len(value_str)
              IN  IF n > 4
                  THEN String([i \in 1..n |-> IF i <= n - 4 THEN "X" ELSE value_str[i]])
                  ELSE field_value
    ELSE field_value

\* _detect_document_currency: no 'extractions' key, so detect_currency over
\* str(extraction_data): the first currency code, else the first symbol.
detect_document_currency(tree) ==
    IF \E k \in DOMAIN tree : tree[k].currency = "USD" THEN "USD"
    ELSE IF \E k \in DOMAIN tree : tree[k].currency = "EUR" THEN "EUR"
    ELSE IF \E k \in DOMAIN tree : contains(str(tree[k].value), <<"$">>) THEN "USD"
    ELSE IF \E k \in DOMAIN tree : contains(str(tree[k].value), <<EuroSign>>) THEN "EUR"
    ELSE ""

\* _normalize_dates_in_extraction
normalize_dates_in_extraction(tree) ==
    [k \in DOMAIN tree |->
        IF is_date_key(k) /\ normalize_date(tree[k].value.text[1]) # "none"
        THEN [tree[k] EXCEPT !.value = String(<<normalize_date(tree[k].value.text[1])>>)]
        ELSE tree[k]]

\* _normalize_amounts_in_extraction
normalize_amounts_in_extraction(tree, document_currency) ==
    [k \in DOMAIN tree |->
        IF is_amount_key(k)
        THEN LET normalized_amount == normalize_amount(tree[k].value, document_currency)
             IN  [value |-> normalized_amount.value,
                  currency |-> normalized_amount.currency]
        ELSE tree[k]]

\* _apply_pii_masking
apply_pii_masking(tree) ==
    [k \in DOMAIN tree |-> [tree[k] EXCEPT !.value = mask_pii_field(k, @)]]

\* NormalizationService.normalize_extraction(extraction_data, document_type, mask_pii)
normalize_extraction(extraction_data, mask_pii) ==
    LET document_currency == detect_document_currency(extraction_data)
        dated == normalize_dates_in_extraction(extraction_data)
        normalized == normalize_amounts_in_extraction(dated, document_currency)
    IN  IF mask_pii THEN apply_pii_masking(normalized) ELSE normalized

\* Trees of at most MaxFields field objects as an extraction holds them
ExtractionTrees ==
    UNION {[keys -> UNION {FieldValues(k) : k \in keys}] :
                keys \in {ks \in SUBSET FieldKeys : Cardinality(ks) <= MaxFields}}

NormalizeCalls ==
    {[extraction_data |-> [k \in DOMAIN t |-> [value |-> t[k], currency |-> ""]],
      mask_pii |-> m, applied |-> 0,
      once |-> <<>>, twice |-> <<>>] :
        m \in BOOLEAN,
        t \in {x \in ExtractionTrees : \A k \in DOMAIN x : x[k] \in FieldValues(k)}}

\* normalize_extraction applied to the tree, and then to its own result
NormalizeExtraction ==
    /\ call.applied < 2
    /\ call' = IF call.applied = 0
               THEN [call EXCEPT !.applied = 1,
                                 !.once = normalize_extraction(call.extraction_data,
                                                               call.mask_pii)]
               ELSE [call EXCEPT !.applied = 2,
                                 !.twice = normalize_extraction(call.once, call.mask_pii)]
    /\ UNCHANGED <<request_vars, pipeline_vars, processing_logs>>

\* ---------------------------------------------------------------- behaviours
\* Concurrent requests: uploads, deletes and background runs interleave.
Next ==
    \/ \E u \in Uploads, file \in LifecycleFiles : UploadSave(u, file)
    \/ \E u \in Uploads : UploadLookup(u)
    \/ \E u \in Uploads : UploadCommit(u)
    \/ \E id \in Ids : BgStart(id, {TRUE})
    \/ \E id \in Ids : BgPipeline(id, {TRUE}, {LLMText}, LifecycleExtracts, {LLMText}, {})
    \/ \E id \in Ids : BgFinish(id, {TRUE})
    \/ \E d \in Deletes, id \in Ids : DeleteSelect(d, id)
    \/ \E d \in Deletes : DeleteCommit(d)

Spec == Init /\ [][Next]_vars

\* One submission and its background run, over every response of the services.
NextPipeline ==
    \/ \E file \in UploadFiles : UploadSave(1, file)
    \/ UploadCommit(1)
    \/ BgStart(1, {TRUE})
    \/ BgPipeline(1, BOOLEAN, CleanupResponses, ExtractResponses,
                  {LLMFailure, LLMText}, Validations)
    \/ BgFinish(1, {TRUE})

SpecPipeline == Init /\ [][NextPipeline]_vars

\* Uploads and their background runs when a commit of the background session
\* may raise.  A background task that was added is run, and each of its
\* awaits returns or raises.
BackgroundStep ==
    \/ \E id \in Ids : BgStart(id, BOOLEAN)
    \/ \E id \in Ids : BgPipeline(id, {TRUE}, {LLMText}, LifecycleExtracts, {LLMText}, {})
    \/ \E id \in Ids : BgFinish(id, BOOLEAN)

NextFaults ==
    \/ \E u \in Uploads, file \in LifecycleFiles : UploadSave(u, file)
    \/ \E u \in Uploads : UploadLookup(u)
    \/ \E u \in Uploads : UploadCommit(u)
    \/ BackgroundStep

\* Where each background task stands; every step of a task moves it on.
task_pcs == [id \in DOMAIN tasks |-> tasks[id].pc]

SpecFaults == Init /\ [][NextFaults]_vars /\ WF_task_pcs(BackgroundStep)

\* One extract_text_from_images call, for every way the endpoint may answer.
InitOcr ==
    /\ files = <<>>
    /\ statements = <<>>
    /\ customer_details = {}
    /\ bank_details = {}
    /\ transactions = {}
    /\ uploads = [u \in Uploads |-> IdleUpload]
    /\ deletes = [d \in Deletes |-> IdleDelete]
    /\ tasks = <<>>
    /\ history = <<>>
    /\ next_id = 1
    /\ temp_images = <<>>
    /\ runs = [r \in Runs |-> IdleRun]
    /\ settings = [CLEANUP_TEMP_FILES |-> TRUE]
    /\ processing_logs = {}
    /\ call \in {c \in OcrCalls : DOMAIN c.answers = 1..c.image_paths}

SpecOcr == InitOcr /\ [][OcrExtractPage]_vars

\* One call of a text completer, for every configuration and every way the
\* model may answer.
InitCompleter ==
    /\ files = <<>>
    /\ statements = <<>>
    /\ customer_details = {}
    /\ bank_details = {}
    /\ transactions = {}
    /\ uploads = [u \in Uploads |-> IdleUpload]
    /\ deletes = [d \in Deletes |-> IdleDelete]
    /\ tasks = <<>>
    /\ history = <<>>
    /\ next_id = 1
    /\ temp_images = <<>>
    /\ runs = [r \in Runs |-> IdleRun]
    /\ settings = [CLEANUP_TEMP_FILES |-> TRUE]
    /\ processing_logs = {}
    /\ call \in CompleterCalls

SpecCompleter == InitCompleter /\ [][CompleterAttempt]_vars

\* _parse_json_response applied to every response text
InitJson ==
    /\ files = <<>>
    /\ statements = <<>>
    /\ customer_details = {}
    /\ bank_details = {}
    /\ transactions = {}
    /\ uploads = [u \in Uploads |-> IdleUpload]
    /\ deletes = [d \in Deletes |-> IdleDelete]
    /\ tasks = <<>>
    /\ history = <<>>
    /\ next_id = 1
    /\ temp_images = <<>>
    /\ runs = [r \in Runs |-> IdleRun]
    /\ settings = [CLEANUP_TEMP_FILES |-> TRUE]
    /\ processing_logs = {}
    /\ call \in JsonResponses

SpecJson == InitJson /\ [][ParseJsonResponse]_vars

\* mask_account_number applied to every account number and show_last
InitMask ==
    /\ files = <<>>
    /\ statements = <<>>
    /\ customer_details = {}
    /\ bank_details = {}
    /\ transactions = {}
    /\ uploads = [u \in Uploads |-> IdleUpload]
    /\ deletes = [d \in Deletes |-> IdleDelete]
    /\ tasks = <<>>
    /\ history = <<>>
    /\ next_id = 1
    /\ temp_images = <<>>
    /\ runs = [r \in Runs |-> IdleRun]
    /\ settings = [CLEANUP_TEMP_FILES |-> TRUE]
    /\ processing_logs = {}
    /\ call \in MaskCalls

SpecMask == InitMask /\ [][MaskAccountNumber]_vars

\* normalize_extraction applied twice to every tree, with and without masking
InitNormalize ==
    /\ files = <<>>
    /\ statements = <<>>
    /\ customer_details = {}
    /\ bank_details = {}
    /\ transactions = {}
    /\ uploads = [u \in Uploads |-> IdleUpload]
    /\ deletes = [d \in Deletes |-> IdleDelete]
    /\ tasks = <<>>
    /\ history = <<>>
    /\ next_id = 1
    /\ temp_images = <<>>
    /\ runs = [r \in Runs |-> IdleRun]
    /\ settings = [CLEANUP_TEMP_FILES |-> TRUE]
    /\ processing_logs = {}
    /\ call \in NormalizeCalls

SpecNormalize == InitNormalize /\ [][NormalizeExtraction]_vars

\* Pipeline runs for distinct statements whose PDFs lie in one date shard.
InitTempImages ==
    /\ files = <<>>
    /\ statements = <<>>
    /\ customer_details = {}
    /\ bank_details = {}
    /\ transactions = {}
    /\ uploads = [u \in Uploads |-> IdleUpload]
    /\ deletes = [d \in Deletes |-> IdleDelete]
    /\ tasks = <<>>
    /\ history = <<>>
    /\ next_id = 1
    /\ temp_images = <<>>
    /\ runs = [r \in Runs |-> IdleRun]
    /\ settings \in [CLEANUP_TEMP_FILES : BOOLEAN]
    /\ processing_logs = {}
    /\ call = <<>>

NextTempImages ==
    \/ \E r \in Runs, pages \in 1..MaxPages : RunRasterize(r, pages)
    \/ \E r \in Runs : RunOcrPage(r)
    \/ \E r \in Runs, success \in BOOLEAN : RunAgents(r, success)

SpecTempImages == InitTempImages /\ [][NextTempImages]_vars

\* -------------------------------------------------------------------- claims
IsPrefix(h, s) == Len(h) <= Len(s) /\ \A i \in 1..Len(h) : h[i] = s[i]

rows_of(id) == {t \in transactions : t.statement_id = id}

has_rows(id) ==
    customer_of(customer_details, id) # {} \/ id \in bank_details \/ rows_of(id) # {}

C2_AtomicResult ==
    \A id \in DOMAIN statements :
        LET s == statements[id]
            r == tasks[id].result
        IN  /\ s.status = COMPLETED =>
                /\ (customer_of(customer_details, id) # {}) = r.final_data.account
                /\ (id \in bank_details) =
                        (r.final_data.bank /\ r.final_data.period # "absent"
                            /\ r.final_data.balances)
                /\ Cardinality(rows_of(id)) = Len(r.final_data.transactions)
                /\ s.total_transactions = Cardinality(rows_of(id))
                /\ s.page_count = r.metadata.pdf_pages
                /\ s.processing_completed_at = "set"
            /\ s.status \in {PENDING, PROCESSING} => ~has_rows(id)

\* A Completed job with its Customer, Bank and Transaction rows.
C2_Witness ==
    \E id \in DOMAIN statements :
        /\ statements[id].status = COMPLETED
        /\ customer_of(customer_details, id) # {}
        /\ id \in bank_details
        /\ Cardinality(rows_of(id)) = MaxTxns

C3_FailedHasNoRows ==
    \A id \in DOMAIN statements :
        statements[id].status = FAILED => ~has_rows(id)

\* C4: while no delete runs, submissions of the same bytes leave one blob and
\* all answer with the same job id.
C4_SameBytesSameJob ==
    (\A d \in Deletes : deletes[d].pc = "idle") =>
        \A u, v \in Uploads :
            (/\ uploads[u].pc = "done" /\ uploads[v].pc = "done"
             /\ is_pdf_filename(uploads[u].file.filename)
             /\ is_pdf_filename(uploads[v].file.filename)
             /\ uploads[u].file.content = uploads[v].file.content)
            => /\ uploads[u].response.code = 200
               /\ uploads[v].response.code = 200
               /\ uploads[u].response.statement_id = uploads[v].response.statement_id
               /\ Cardinality(find_file_by_hash(files,
                        calculate_file_hash(uploads[u].file.content))) = 1

\* C5: a submission whose content hash matches an existing job adds no Job
\* row, starts no background run, leaves the existing job unchanged, and
\* answers with that job's id and current state.
C5_DuplicateReturnsExisting ==
    [][\A u \in Uploads :
        (uploads'[u] # uploads[u] /\ uploads'[u].arrival_match # 0) =>
            LET m == uploads'[u].arrival_match
            IN  /\ statements' = statements
                /\ tasks' = tasks
                /\ history' = history
                /\ uploads'[u].pc = "done" =>
                    /\ m \in DOMAIN statements
                    /\ uploads'[u].response =
                            [code |-> 200, statement_id |-> m,
                             status |-> statements[m].status]]_vars

\* The extraction stage returned without an error.
extraction_returned(r) ==
    Len(r.stages) >= 4 /\ r.errors # <<"Agent 2 failed: llm error">>

\* C6: an extraction output with none of the groups makes the pipeline fail
\* at extract: normalize is not run and the job ends Failed.
C6_EmptyExtractionFails ==
    \A id \in DOMAIN tasks :
        LET r == tasks[id].result
        IN  (/\ tasks[id].pc \in {"finish", "done"}
             /\ extraction_returned(r)
             /\ ~HasGroup(r.extracted_data))
            => /\ ~r.success
               /\ \A i \in DOMAIN r.stages : r.stages[i] # "normalization"
               /\ (tasks[id].pc = "done" /\ id \in DOMAIN statements)
                    => statements[id].status = FAILED

\* C7: a Completed job has one row for every group present in the final data
\* (account: Customer, bank: Bank, transactions: one row each), and
\* total_transactions is the number of Transaction rows written.
C7_RowForEveryGroup ==
    \A id \in DOMAIN statements :
        statements[id].status = COMPLETED =>
            LET f == tasks[id].result.final_data
            IN  /\ f.account => customer_of(customer_details, id) # {}
                /\ f.bank => id \in bank_details
                /\ Cardinality(rows_of(id)) = Len(f.transactions)
                /\ statements[id].total_transactions = Cardinality(rows_of(id))

C10_RejectedBeforeJobRow ==
    \A u \in Uploads :
        (/\ uploads[u].pc = "done"
         /\ ~uploads[u].file.content.pdf \/ uploads[u].file.content.pages = 0)
        => /\ uploads[u].response.code = 400
           /\ statements_with_hash(statements,
                    calculate_file_hash(uploads[u].file.content)) = {}
\* C11: after a delete has succeeded, the statement, its rows and its blob
\* no longer exist (its bytes at its path belong to a statement created since
\* or to an upload still in progress),
\* the id is not found again, and an upload of the same bytes that arrives
\* later is answered with a new job.
C11_DeleteRemovesEverything ==
    \A d \in Deletes :
        (deletes[d].pc = "done" /\ deletes[d].code = 200) =>
            LET id == deletes[d].statement_id
            IN  /\ id \notin DOMAIN statements
                /\ ~has_rows(id)
                /\ (/\ deletes[d].file_path \in DOMAIN files
                    /\ calculate_file_hash(files[deletes[d].file_path])
                            = deletes[d].file_hash)
                    => \/ \E other \in DOMAIN statements :
                            statements[other].file_path = deletes[d].file_path
                       \/ \E u \in Uploads :
                            /\ uploads[u].pc \in {"lookup", "create"}
                            /\ uploads[u].save_result.path = deletes[d].file_path
                /\ \A u \in Uploads :
                        (/\ uploads[u].pc = "done"
                         /\ id \in uploads[u].deleted_before
                         /\ is_pdf_filename(uploads[u].file.filename)
                         /\ calculate_file_hash(uploads[u].file.content)
                                = deletes[d].file_hash)
                        => /\ uploads[u].response.code = 200
                           /\ uploads[u].response.statement_id # id
                           /\ uploads[u].response.statement_id \in DOMAIN history
\* C12: for every Completed job the persisted account_number_masked is the
\* masked form of the extracted account number, and never a number with
\* more than its last four characters readable.
C12_AccountNumberMasked ==
    \A id \in DOMAIN statements :
        statements[id].status = COMPLETED =>
            \A c \in customer_of(customer_details, id) :
                LET extracted == tasks[id].result.extracted_data.account_number
                IN  /\ c.account_number_masked = mask_account_number(extracted, 4, "X")
                    /\ \A i \in 1..(Len(c.account_number_masked) - 4) :
                            c.account_number_masked[i] = "X"
\* The normalize response holds no non-empty JSON object: no balanced
\* object, or the empty mapping.
unparsable_normalize(response) ==
    /\ response.success
    /\ \/ ~response.json
       \/ ~response.has_normalized_data /\ response.validation_results = NoValidation

\* C13: when the normalize response cannot be parsed into a non-empty JSON
\* object, process_bank_statement returns success false and the job ends Failed.
C13_UnparsableNormalizeFails ==
    \A id \in DOMAIN tasks :
        LET r == tasks[id].result
        IN  (/\ tasks[id].pc \in {"finish", "done"}
             /\ Len(r.stages) = 5
             /\ unparsable_normalize(tasks[id].calls.normalize))
            => /\ ~r.success
               /\ (tasks[id].pc = "done" /\ id \in DOMAIN statements)
                    => statements[id].status = FAILED
\* C14: when OCR returns the empty string for every page, the run fails
\* without invoking cleanup, extract or normalize, and the job ends Failed.
C14_EmptyOcrFails ==
    \A id \in DOMAIN tasks :
        LET r == tasks[id].result
            texts == tasks[id].calls.ocr_texts
        IN  (/\ tasks[id].pc \in {"finish", "done"}
             /\ texts # <<>>
             /\ \A i \in DOMAIN texts : ~texts[i])
            => /\ ~r.success
               /\ r.errors # <<>>
               /\ \A i \in DOMAIN r.stages :
                    r.stages[i] \notin {"ocr_cleanup", "data_extraction", "normalization"}
               /\ (tasks[id].pc = "done" /\ id \in DOMAIN statements)
                    => statements[id].status = FAILED

\* C15: when cleanup returns empty text, the run fails: extract is not invoked
\* and process_bank_statement returns success false.
C15_EmptyCleanupFails ==
    \A id \in DOMAIN tasks :
        LET r == tasks[id].result
            a1 == cleanup_process(tasks[id].calls.cleanup)
        IN  (/\ tasks[id].pc \in {"finish", "done"}
             /\ a1.success
             /\ a1.cleaned_text_empty)
            => /\ ~r.success
               /\ \A i \in DOMAIN r.stages :
                    r.stages[i] \notin {"data_extraction", "normalization"}
\* C16: a failed LLM call makes the agent return success false with an error
\* message, and process_bank_statement returns an envelope in which a failure
\* shows as success false with a non-empty errors list.
C16_FailuresShapeTheResult ==
    \A id \in DOMAIN tasks :
        LET r == tasks[id].result
            c == tasks[id].calls
            a1 == cleanup_process(c.cleanup)
            a2 == extraction_process(c.extract)
            a3 == normalization_process(a2.extracted_data, c.normalize)
        IN  tasks[id].pc \in {"finish", "done"} =>
                /\ ~c.cleanup.success => (~a1.success /\ a1.error # Null)
                /\ ~c.extract.success => (~a2.success /\ a2.error # Null)
                /\ ~c.normalize.success => (~a3.success /\ a3.error # Null)
                /\ r.errors # <<>> <=> ~r.success
\* C17: an upload of exactly MAX_UPLOAD_SIZE bytes is accepted and creates a
\* job; one of MAX_UPLOAD_SIZE + 1 bytes is rejected and leaves neither a blob
\* nor a Job row.
C17_UploadSizeLimit ==
    \A u \in Uploads :
        LET content == uploads[u].file.content
            file_hash == calculate_file_hash(content)
        IN  (uploads[u].pc = "done" /\ is_pdf_filename(uploads[u].file.filename)) =>
                /\ content.size = MAX_UPLOAD_SIZE =>
                        /\ uploads[u].response.code = 200
                        /\ uploads[u].response.statement_id \in DOMAIN statements
                /\ content.size > MAX_UPLOAD_SIZE =>
                        /\ uploads[u].response.code \notin {0, 200}
                        /\ find_file_by_hash(files, file_hash) = {}
                        /\ statements_with_hash(statements, file_hash) = {}
StageOrder ==
    <<"pdf_conversion", "ocr_extraction", "ocr_cleanup", "data_extraction", "normalization">>

\* C18: within one run the stages execute in the order rasterize, ocr,
\* cleanup, extract, normalize, each at most once; a stage starts only after
\* the previous one has succeeded and none runs after a failed one.
C18_StagesInOrder ==
    \A id \in DOMAIN tasks :
        LET r == tasks[id].result
            c == tasks[id].calls
            a1 == cleanup_process(c.cleanup)
            a2 == extraction_process(c.extract)
            a3 == normalization_process(a2.extracted_data, c.normalize)
        IN  tasks[id].pc \in {"finish", "done"} =>
                /\ IsPrefix(r.stages, StageOrder)
                /\ Len(r.stages) \in {0, 3, 4, 5}
                /\ Len(r.stages) = 3 => ~a1.success
                /\ Len(r.stages) = 4 => a1.success /\ ~a2.success
                /\ Len(r.stages) = 5 => a1.success /\ a2.success
                /\ r.success => Len(r.stages) = 5 /\ a3.success
                /\ (Len(r.stages) = 5 /\ ~a3.success) => ~r.success

\* A run in which extraction failed after cleanup succeeded: four stages ran
\* and normalization did not.
C18_Witness ==
    \E id \in DOMAIN tasks :
        /\ tasks[id].pc = "done"
        /\ tasks[id].calls.cleanup.success
        /\ ~tasks[id].calls.extract.success
        /\ Len(tasks[id].result.stages) = 4
        /\ statements[id].status = FAILED
\* C19: under every interleaving of runs for distinct statements of one date
\* shard, every page image a run passes to OCR is there and was rendered from
\* the run's own PDF.
C19_RunsShareNothing ==
    \A r \in Runs :
        \A k \in DOMAIN runs[r].ocr_inputs : runs[r].ocr_inputs[k] = r
\* C20: every job accepted by upload_statement eventually reaches Completed
\* or Failed when its background task is run, also when a commit of the
\* result or of the failure raises.
C20_EveryJobTerminates ==
    \A id \in Ids :
        (id \in DOMAIN statements)
            ~> (id \in DOMAIN statements
                    /\ statements[id].status \in {COMPLETED, FAILED})

\* C21: when a statement is deleted while its background run is in flight,
\* then once the delete has returned and the run has ended there is no
\* statement, customer, bank or transaction row with that id.
C21_DeleteDuringRun ==
    \A d \in Deletes :
        LET id == deletes[d].statement_id
        IN  (/\ deletes[d].pc = "done"
             /\ deletes[d].code = 200
             /\ id \in DOMAIN tasks
             /\ tasks[id].pc = "done")
            => (id \notin DOMAIN statements /\ ~has_rows(id))

\* The delete was committed while the job was Processing, and the run, which
\* had a customer, a bank and a transaction row to write, ended after it.
C21_Witness ==
    \E d \in Deletes :
        LET id == deletes[d].statement_id
        IN  /\ deletes[d].pc = "done"
            /\ deletes[d].code = 200
            /\ id \in DOMAIN tasks
            /\ tasks[id].pc = "done"
            /\ history[id] = <<PENDING, PROCESSING>>
            /\ tasks[id].result.success
            /\ build_rows(tasks[id].result.final_data).customer
            /\ build_rows(tasks[id].result.final_data).transactions > 0

\* C22: a page's OCR is attempted up to OLMOCR_MAX_RETRIES times: when one
\* of these attempts would succeed the page's text is that result, and the
\* empty string stands for the page only when every attempt fails.
C22_OcrRetries ==
    \A k \in 1..call.page :
        IF \E i \in 1..OLMOCR_MAX_RETRIES : call.answers[k][i] = "ok"
        THEN call.results[k] = page_text(k)
        ELSE call.results[k] = empty_text /\ call.posts[k] = OLMOCR_MAX_RETRIES

\* C23: extract_text_from_images returns one string per image path, in input
\* order: the text of page k at position k, or the empty string there when
\* the extraction of page k failed.
C23_OneTextPerImage ==
    /\ Len(call.results) = call.page
    /\ \A k \in 1..call.page :
            call.results[k] = IF call.answers[k][1] = "ok" THEN page_text(k)
                              ELSE empty_text

\* The whole batch is done, its first page failed and its second did not.
C23_Witness ==
    /\ call.page = call.image_paths
    /\ call.image_paths >= 2
    /\ call.answers[1][1] # "ok"
    /\ call.answers[2][1] = "ok"
    /\ call.results[2] = page_text(2)

\* C24: a text completer makes at most max_retries + 1 requests per call,
\* sleeps retry_delay * 2 ** attempt between them, makes a further request
\* only after an exception of the transport, never after an error about the
\* response, and ends with a result, not an exception, when the requests are
\* used up.
C24_RetryOnlyTransport ==
    /\ call.attempt <= call.max_retries + 1
    /\ \A i \in 1..Len(call.after) : call.after[i] = "transport_error"
    /\ \A i \in 1..Len(call.delays) : call.delays[i] = pow2(i - 1)
    /\ (\A i \in 1..call.attempt : call.answers[i] = "transport_error")
            => call.outcome # "raised"

\* C25: when a pipeline run has ended, with success or with a failure, the
\* page images it rendered are gone if CLEANUP_TEMP_FILES is enabled, and
\* its page files are still there if it is not.
C25_CleanupIffFlag ==
    \A r \in Runs :
        runs[r].pc = "done"
        => IF settings.CLEANUP_TEMP_FILES
           THEN \A k \in DOMAIN temp_images : temp_images[k] # r
           ELSE \A k \in 1..runs[r].pages : k \in DOMAIN temp_images

\* C26: a run whose OCR stage has completed has, among the processing_logs
\* rows of its statement, an ocr:started row followed by an ocr:completed row.
C26_StageTransitionsLogged ==
    \A id \in DOMAIN tasks :
        (/\ tasks[id].pc = "done"
         /\ \E i \in DOMAIN tasks[id].result.stages :
                tasks[id].result.stages[i] = "ocr_extraction")
        => \E started \in processing_logs, completed \in processing_logs :
                /\ started.statement_id = id
                /\ completed.statement_id = id
                /\ started.step = "ocr" /\ started.status = "started"
                /\ completed.step = "ocr" /\ completed.status = "completed"
                /\ started.created_at < completed.created_at

\* C27: for a response text that holds exactly one balanced object, with
\* prose around it, _parse_json_response returns that object, whatever braces
\* and escaped quotes its string literals hold; for a text without a
\* balanced object it returns the empty mapping.
C27_ParseReturnsTheObject ==
    call.returned # <<>>
    => call.returned = IF call.has_object THEN call.object ELSE EmptyMapping

\* C28: for every account number and every show_last, the masked number is
\* as long as the number without spaces and dashes, ends with that number's
\* last show_last characters, and holds the mask character everywhere else.
C28_MaskShape ==
    call.done
    => LET keep(c) == c \notin {" ", "-"}
           cleaned == SelectSeq(call.account_number, keep)
           n == Len(cleaned)
       IN  /\ Len(call.masked) = n
           /\ \A i \in 1..Len(call.masked) :
                call.masked[i] = IF i > n - call.show_last /\ i <= n THEN cleaned[i]
                                 ELSE "X"

\* C29: after normalize_extraction every field object whose key is an amount
\* key holds a number, never a string, also when masking is enabled and the
\* key is a PII key as well.
C29_AmountsNumeric ==
    call.applied >= 1
    => \A k \in DOMAIN call.once : is_amount_key(k) => call.once[k].value.numeric

\* C30: normalize_extraction applied to a tree it has produced, with the
\* same masking setting, returns that tree unchanged.
C30_Idempotent ==
    call.applied = 2 => call.twice = call.once

====
